---------------------------- MODULE Spec2Model ----------------------------
(***************************************************************************)
(* IFRS9 ECL engine (src/src/ecl_engine.py): stage assignment, scenario    *)
(* ECL, probability-weighted ECL and the portfolio loop, as a state        *)
(* machine whose steps are the statements of the three nested functions.   *)
(*                                                                         *)
(* Numbers.  Python floats are modelled by exact rationals <<n, d>> in     *)
(* lowest terms with d > 0; round(x, 2) is round-half-to-even on the exact *)
(* value.  The binary representation error of IEEE doubles (1e-16          *)
(* relative) is outside the model.  <<0, 0>> is a local that has not been  *)
(* assigned yet.                                                           *)
(***************************************************************************)
EXTENDS Integers, Sequences, FiniteSets, TLC

\* ------------------------------------------------------------------------
\* Rational arithmetic
\* ------------------------------------------------------------------------

Abs(a) == IF a < 0 THEN -a ELSE a

RECURSIVE GCD(_, _)
GCD(a, b) == IF b = 0 THEN a ELSE GCD(b, a % b)

\* n/d in lowest terms, d > 0.
Norm(n, d) ==
    LET g == GCD(Abs(n), Abs(d))
        s == IF d < 0 THEN -1 ELSE 1
    IN  <<(s * n) \div g, (s * d) \div g>>

Zero == <<0, 1>>
One == <<1, 1>>
Unbound == <<0, 0>>

R(n, d) == Norm(n, d)

RNeg(x) == <<-x[1], x[2]>>

RAdd(x, y) ==
    LET g == GCD(x[2], y[2])
    IN  Norm(x[1] * (y[2] \div g) + y[1] * (x[2] \div g), (x[2] \div g) * y[2])

RSub(x, y) == RAdd(x, RNeg(y))

RMul(x, y) ==
    LET g1 == GCD(Abs(x[1]), y[2])
        g2 == GCD(Abs(y[1]), x[2])
    IN  Norm((x[1] \div g1) * (y[1] \div g2), (x[2] \div g2) * (y[2] \div g1))

\* x / y for y /= 0.
RDiv(x, y) == RMul(x, Norm(y[2], y[1]))

RECURSIVE RPow(_, _)
RPow(x, k) == IF k = 0 THEN One ELSE RMul(x, RPow(x, k - 1))

RLt(x, y) == x[1] * y[2] < y[1] * x[2]
RLe(x, y) == x[1] * y[2] <= y[1] * x[2]
RGt(x, y) == RLt(y, x)

\* Python's min(a, b): b only when b < a.
RMin(x, y) == IF RLt(y, x) THEN y ELSE x

\* Cents of a non-negative rational, round-half-to-even.
CentsOf(x) ==
    LET q == x[1] \div x[2]
        r == x[1] % x[2]
        c == (r * 100) \div x[2]
        m == (r * 100) % x[2]
        up == IF 2 * m > x[2] THEN 1
              ELSE IF 2 * m = x[2] THEN c % 2
              ELSE 0
    IN  q * 100 + c + up

\* round(x, 2)
Round2(x) ==
    IF x[1] < 0 THEN Norm(-CentsOf(RNeg(x)), 100) ELSE Norm(CentsOf(x), 100)

\* ------------------------------------------------------------------------
\* Module constants
\* ------------------------------------------------------------------------

\* SCENARIO_WEIGHTS.items() iterates in insertion order.
ScenarioOrder == <<"Optimistic", "Base", "Downturn">>

SCENARIO_WEIGHTS ==
    [s \in {"Optimistic", "Base", "Downturn"} |->
        CASE s = "Optimistic" -> R(30, 100)
          [] s = "Base" -> R(40, 100)
          [] s = "Downturn" -> R(30, 100)]

PD_MULTIPLIERS ==
    [s \in {"Optimistic", "Base", "Downturn"} |->
        CASE s = "Optimistic" -> R(80, 100)
          [] s = "Base" -> R(100, 100)
          [] s = "Downturn" -> R(150, 100)]

\* SCENARIO_WEIGHTS as its items() in insertion order.
Items(order, weights) == [i \in 1..Len(order) |-> [name |-> order[i], weight |-> weights[order[i]]]]

DefaultWeights == Items(ScenarioOrder, SCENARIO_WEIGHTS)

\* A scenario set: the two tables.
ScenarioSet(items, multipliers) == [weights |-> items, multipliers |-> multipliers]

DefaultSet == ScenarioSet(DefaultWeights, PD_MULTIPLIERS)

\* No scenario set is passed with the call.
NoSet == [none |-> TRUE]

\* ------------------------------------------------------------------------
\* assign_stage
\* ------------------------------------------------------------------------

assign_stage_GeThreshold(initial_pd, current_pd) ==
    IF RLe(R(1, 2), current_pd) THEN 3
    ELSE IF RGt(initial_pd, Zero) /\ RGt(RDiv(current_pd, initial_pd), R(3, 1)) THEN 2
    ELSE 1

assign_stage_GeRatio(initial_pd, current_pd) ==
    IF RGt(current_pd, R(1, 2)) THEN 3
    ELSE IF RGt(initial_pd, Zero) /\ RLe(R(3, 1), RDiv(current_pd, initial_pd)) THEN 2
    ELSE 1

assign_stage_ZeroBased(initial_pd, current_pd) ==
    IF RGt(current_pd, R(1, 2)) THEN 2
    ELSE IF RGt(initial_pd, Zero) /\ RGt(RDiv(current_pd, initial_pd), R(3, 1)) THEN 1
    ELSE 0

assign_stage(initial_pd, current_pd) ==
    IF RGt(current_pd, R(1, 2)) THEN 3
    ELSE IF RGt(initial_pd, Zero) /\ RGt(RDiv(current_pd, initial_pd), R(3, 1)) THEN 2
    ELSE 1

\* ------------------------------------------------------------------------
\* calculate_ecl: the statements of the body
\* ------------------------------------------------------------------------

PdAdj_NoCap(current_pd, pd_multiplier) == RMul(current_pd, pd_multiplier)

\* pd_adj = min(current_pd * pd_multiplier, 1.0)
PdAdj(current_pd, pd_multiplier) == RMin(RMul(current_pd, pd_multiplier), One)

Ecl12m_Discounted(p, lgd, ead, eir) == RDiv(RMul(RMul(p, lgd), ead), RAdd(One, eir))

\* ecl = pd_12m * lgd * ead (eir is in scope and is not used)
Ecl12m(p, lgd, ead, eir) == RMul(RMul(p, lgd), ead)

MarginalPd_AfterUpdate(survival, p) == RMul(RMul(survival, RSub(One, p)), p)

\* marginal_pd = cum_survival * pd_adj
MarginalPd(survival, p) == RMul(survival, p)

DiscountFactor_Compounding(eir, year) == RPow(RAdd(One, eir), year)

\* discount_factor = 1.0 / ((1.0 + eir) ** t)
DiscountFactor(eir, year) == RDiv(One, RPow(RAdd(One, eir), year))

\* (1.0 + eir) ** t is 0.0: the division raises.
ZeroDivisor(eir, year) == RPow(RAdd(One, eir), year) = Zero

\* marginal_pd * lgd * ead * discount_factor
MarginalLoss(mpd, lgd, ead, df) == RMul(RMul(RMul(mpd, lgd), ead), df)

\* cum_survival *= (1.0 - pd_adj)
NextSurvival(survival, p) == RMul(survival, RSub(One, p))

\* cum_survival = 1.0
InitialSurvival == One

\* for t in range(1, maturity_years + 1): the loop is over once t passes
\* maturity_years.
LoopOver(year, maturity_years) == year > maturity_years

\* ------------------------------------------------------------------------
\* calculate_weighted_ecl: the statements of the body
\* ------------------------------------------------------------------------

Accumulate_Unweighted(acc, weight, ecl_scenario) == RAdd(acc, ecl_scenario)

\* weighted_ecl += weight * ecl_scenario
Accumulate(acc, weight, ecl_scenario) == RAdd(acc, RMul(weight, ecl_scenario))

InitialWeighted_Stale(stale) == IF stale = Unbound THEN Zero ELSE stale

\* weighted_ecl = 0.0 (a fresh local, whatever an earlier call left behind)
InitialWeighted(stale) == Zero

\* ------------------------------------------------------------------------
\* State
\* ------------------------------------------------------------------------

VARIABLES
    \* process_portfolio: argument, locals, position
    portfolio, results, idx, stage, ppc,
    \* calculate_weighted_ecl: arguments, locals, return value, position
    wargs, weighted_ecl, scen, ecl_scenario, wret, wpc,
    \* calculate_ecl: arguments, locals, return value, position
    cargs, pd_adj, ecl, cum_survival, marginal_pd, t, cret, cpc,
    \* assign_stage called on its own: arguments and return value
    sargs, sret,
    \* the caller: the function it entered, and its previous call of it
    entry, prev,
    \* the module's globals SCENARIO_WEIGHTS (a dict, as its items in
    \* insertion order) and PD_MULTIPLIERS, and the scenario set a caller
    \* passes as an extra argument (NoSet: none passed)
    scenario_weights, pd_multipliers, supplied,
    \* load_portfolio: the rows csv.DictReader yields, locals, position
    csv, rows, ri, lpc,
    \* step_calculate_ecl: position, and what save_results was given
    mpc, saved

pvars == <<portfolio, results, idx, stage, ppc>>
wvars == <<wargs, weighted_ecl, scen, ecl_scenario, wret, wpc>>
cvars == <<cargs, pd_adj, ecl, cum_survival, marginal_pd, t, cret, cpc>>
svars == <<sargs, sret>>
gvars == <<scenario_weights, pd_multipliers, supplied>>
lvars == <<csv, rows, ri, lpc, mpc, saved>>
vars == <<pvars, wvars, cvars, svars, entry, prev, gvars, lvars>>

\* ------------------------------------------------------------------------
\* Bounds and input sets
\* ------------------------------------------------------------------------

MaxLoans == 2
MaxMaturity == 3

NoArgs == [none |-> TRUE]

Loan(id, sector, principal, initial_pd, current_pd, maturity_years, eir, lgd) ==
    [Loan_ID |-> id, Sector |-> sector, Principal |-> principal,
     Initial_PD |-> initial_pd, Current_PD |-> current_pd,
     Maturity_Years |-> maturity_years, EIR |-> eir, LGD |-> lgd]

\* Valid loans: one per stage rule and per branch of the ECL formula.
Catalogue ==
    { Loan("LOAN00001", "Retail", R(100000, 1), R(2, 100), R(2, 100), 2, R(3, 100), R(45, 100)),
      Loan("LOAN00002", "Corporate", R(100000, 1), R(10, 100), R(60, 100), 1, R(3, 100), R(45, 100)),
      Loan("LOAN00003", "SME", R(100, 1), R(1, 10), R(1, 2), MaxMaturity, R(1, 4), R(45, 100)),
      Loan("LOAN00004", "Mortgage", R(100, 1), R(1, 6), R(1, 2), 2, Zero, One),
      Loan("LOAN00005", "Consumer", R(100, 1), R(3, 4), R(3, 4), MaxMaturity, R(1, 2), Zero),
      Loan("LOAN00006", "Sovereign", R(1, 1), R(1, 10), R(2, 5), 2, R(1, 4), R(45, 100)) }

RECURSIVE SeqsUpTo(_, _)
SeqsUpTo(S, n) ==
    IF n = 0 THEN {<<>>}
    ELSE LET shorter == SeqsUpTo(S, n - 1)
         IN  shorter \cup {Append(q, x) : q \in shorter, x \in S}

Portfolios == SeqsUpTo(Catalogue, MaxLoans)

Without(p, k) == [i \in 1..(Len(p) - 1) |-> IF i < k THEN p[i] ELSE p[i + 1]]

Swapped(p, k) ==
    [i \in 1..Len(p) |-> IF i = k THEN p[k + 1] ELSE IF i = k + 1 THEN p[k] ELSE p[i]]

\* The batches a second run is given: the same one, or one with a loan
\* removed, added in front or behind, or two neighbours exchanged.
Variants(p) ==
    {p}
    \cup {Without(p, k) : k \in 1..Len(p)}
    \cup {Swapped(p, k) : k \in 1..(Len(p) - 1)}
    \cup (IF Len(p) < MaxLoans
          THEN {Append(p, x) : x \in Catalogue} \cup {<<x>> \o p : x \in Catalogue}
          ELSE {})

EclArgs(st, pd, lgd, ead, m, eir, mult) ==
    [stage |-> st, current_pd |-> pd, lgd |-> lgd, ead |-> ead,
     maturity_years |-> m, eir |-> eir, pd_multiplier |-> mult]

WeightedArgs(st, pd, lgd, ead, m, eir) ==
    [stage |-> st, current_pd |-> pd, lgd |-> lgd, ead |-> ead,
     maturity_years |-> m, eir |-> eir]

Stages == {1, 2, 3}
GridPD == {R(1, 2), R(3, 4), One}
GridLGD == {Zero, R(45, 100), One}
GridEAD == {One, R(100, 1)}
GridEIR == {Zero, R(1, 4), R(1, 2)}
GridMult == {Zero, R(80, 100), One, R(150, 100), R(2, 1)}

\* The documented reference loans, and a loan of one currency unit.
ExampleWeighted ==
    {WeightedArgs(1, R(2, 100), R(45, 100), R(100000, 1), m, e) :
        m \in {1, 5}, e \in {R(3, 100), R(4, 100)}}
    \cup {WeightedArgs(3, R(60, 100), R(45, 100), R(100000, 1), m, e) :
        m \in {1, 2}, e \in {R(3, 100), R(4, 100)}}
    \cup {WeightedArgs(3, R(60, 100), R(45, 100), One, 2, e) :
        e \in {R(3, 100), R(4, 100)}}

WeightedCalls ==
    {WeightedArgs(st, pd, lgd, ead, m, e) :
        st \in Stages, pd \in GridPD, lgd \in GridLGD, ead \in GridEAD,
        m \in 1..MaxMaturity, e \in GridEIR}
    \cup ExampleWeighted

WithMultiplier(a, mult) ==
    EclArgs(a.stage, a.current_pd, a.lgd, a.ead, a.maturity_years, a.eir, mult)

EclCalls ==
    {WithMultiplier(a, mult) : a \in WeightedCalls \ ExampleWeighted, mult \in GridMult}
    \cup {WithMultiplier(a, One) : a \in ExampleWeighted}

\* A second call differs from the first in maturity_years, eir and
\* pd_multiplier at most.
SameLoan(a, b) ==
    /\ a.stage = b.stage
    /\ a.current_pd = b.current_pd
    /\ a.lgd = b.lgd
    /\ a.ead = b.ead

StagePDs ==
    {Zero, R(1, 20), R(1, 10), R(1, 6), R(3, 10), R(49, 100), R(1, 2), R(51, 100), R(3, 4), One}

\* ------------------------------------------------------------------------
\* calculate_ecl, statement by statement
\* ------------------------------------------------------------------------

\* Entry to the head of the loop (or, for stage 1, to the return statement).
EclEnter ==
    /\ cpc = "entry"
    /\ pd_adj' = PdAdj(cargs.current_pd, cargs.pd_multiplier)
    /\ IF cargs.stage = 1
       THEN /\ ecl' = Ecl12m(pd_adj', cargs.lgd, cargs.ead, cargs.eir)
            /\ cum_survival' = Unbound
            /\ t' = 0
            /\ cpc' = "tail"
       ELSE /\ ecl' = Zero
            /\ cum_survival' = InitialSurvival
            /\ t' = 1
            /\ cpc' = "loop"
    /\ marginal_pd' = Unbound
    /\ cret' = Unbound
    /\ UNCHANGED <<cargs, pvars, wvars, svars, entry, prev, gvars, lvars>>

\* One iteration of the lifetime loop.
EclYear ==
    /\ cpc = "loop"
    /\ ~LoopOver(t, cargs.maturity_years)
    /\ ~ZeroDivisor(cargs.eir, t)
    /\ marginal_pd' = MarginalPd(cum_survival, pd_adj)
    /\ ecl' = RAdd(ecl, MarginalLoss(marginal_pd', cargs.lgd, cargs.ead,
                                     DiscountFactor(cargs.eir, t)))
    /\ cum_survival' = NextSurvival(cum_survival, pd_adj)
    /\ t' = t + 1
    /\ UNCHANGED <<cargs, pd_adj, cret, cpc, pvars, wvars, svars, entry, prev, gvars, lvars>>

\* discount_factor = 1.0 / ((1.0 + eir) ** t) with a zero divisor:
\* ZeroDivisionError.
EclZeroDivision ==
    /\ cpc = "loop"
    /\ ~LoopOver(t, cargs.maturity_years)
    /\ ZeroDivisor(cargs.eir, t)
    /\ marginal_pd' = MarginalPd(cum_survival, pd_adj)
    /\ cpc' = "raised"
    /\ UNCHANGED <<cargs, pd_adj, ecl, cum_survival, t, cret,
                   pvars, wvars, svars, entry, prev, gvars, lvars>>

\* return round(ecl, 2)
EclReturn ==
    /\ \/ cpc = "tail"
       \/ cpc = "loop" /\ LoopOver(t, cargs.maturity_years)
    /\ cret' = Round2(ecl)
    /\ cpc' = "done"
    /\ UNCHANGED <<cargs, pd_adj, ecl, cum_survival, marginal_pd, t,
                   pvars, wvars, svars, entry, prev, gvars, lvars>>

\* ------------------------------------------------------------------------
\* calculate_weighted_ecl, statement by statement
\* ------------------------------------------------------------------------

\* The call passes a scenario set to fn, whose def has no parameter for it.
ExtraArgument(fn) == entry = fn /\ supplied # NoSet

WeightedEnter ==
    /\ wpc = "entry"
    /\ ~ExtraArgument("calculate_weighted_ecl")
    /\ weighted_ecl' = InitialWeighted(weighted_ecl)
    /\ scen' = 1
    /\ ecl_scenario' = <<>>
    /\ wret' = Unbound
    /\ wpc' = "loop"
    /\ UNCHANGED <<wargs, pvars, cvars, svars, entry, prev, gvars, lvars>>

\* The head of the scenario loop: the call of calculate_ecl.
WeightedNext ==
    /\ wpc = "loop"
    /\ scen <= Len(scenario_weights)
    /\ scenario_weights[scen].name \in DOMAIN pd_multipliers
    /\ cargs' = WithMultiplier(wargs, pd_multipliers[scenario_weights[scen].name])
    /\ cpc' = "entry"
    /\ wpc' = "call"
    /\ UNCHANGED <<wargs, weighted_ecl, scen, ecl_scenario, wret,
                   pd_adj, ecl, cum_survival, marginal_pd, t, cret,
                   pvars, svars, entry, prev, gvars, lvars>>

\* calculate_ecl has returned: weighted_ecl += weight * ecl_scenario.
\* ecl_scenario keeps every value the loop variable has taken, with the
\* arguments of the call that returned it.
WeightedAccumulate ==
    /\ wpc = "call"
    /\ cpc = "done"
    /\ ecl_scenario' = Append(ecl_scenario, [args |-> cargs, ret |-> cret])
    /\ weighted_ecl' = Accumulate(weighted_ecl, scenario_weights[scen].weight, cret)
    /\ scen' = scen + 1
    /\ wpc' = "loop"
    /\ cpc' = "idle"
    /\ UNCHANGED <<wargs, wret, cargs, pd_adj, ecl, cum_survival, marginal_pd, t, cret,
                   pvars, svars, entry, prev, gvars, lvars>>

\* calculate_ecl has raised: nothing catches it.
WeightedUnwind ==
    /\ wpc = "call"
    /\ cpc = "raised"
    /\ wpc' = "raised"
    /\ cpc' = "idle"
    /\ UNCHANGED <<wargs, weighted_ecl, scen, ecl_scenario, wret,
                   cargs, pd_adj, ecl, cum_survival, marginal_pd, t, cret,
                   pvars, svars, entry, prev, gvars, lvars>>

\* mult = PD_MULTIPLIERS[scenario] for a scenario PD_MULTIPLIERS does not
\* hold: KeyError.
WeightedKeyError ==
    /\ wpc = "loop"
    /\ scen <= Len(scenario_weights)
    /\ scenario_weights[scen].name \notin DOMAIN pd_multipliers
    /\ wpc' = "raised"
    /\ UNCHANGED <<wargs, weighted_ecl, scen, ecl_scenario, wret,
                   pvars, cvars, svars, entry, prev, gvars, lvars>>

\* A seventh argument: TypeError when the call binds its arguments.
WeightedReject ==
    /\ wpc = "entry"
    /\ ExtraArgument("calculate_weighted_ecl")
    /\ wpc' = "raised"
    /\ UNCHANGED <<wargs, weighted_ecl, scen, ecl_scenario, wret,
                   pvars, cvars, svars, entry, prev, gvars, lvars>>

\* return round(weighted_ecl, 2)
WeightedReturn ==
    /\ wpc = "loop"
    /\ scen > Len(scenario_weights)
    /\ wret' = Round2(weighted_ecl)
    /\ wpc' = "done"
    /\ UNCHANGED <<wargs, weighted_ecl, scen, ecl_scenario, pvars, cvars, svars, entry, prev, gvars, lvars>>

\* ------------------------------------------------------------------------
\* process_portfolio, statement by statement
\* ------------------------------------------------------------------------

ResultRecord(loan, st, e) ==
    [Loan_ID |-> loan.Loan_ID, Sector |-> loan.Sector, Principal |-> loan.Principal,
     Initial_PD |-> loan.Initial_PD, Current_PD |-> loan.Current_PD,
     Maturity_Years |-> loan.Maturity_Years, EIR |-> loan.EIR, LGD |-> loan.LGD,
     Stage |-> st, ECL |-> e]

Appended_InFront(res, rec) == <<rec>> \o res

\* results.append(...)
Appended(res, rec) == Append(res, rec)

\* The head of the loan loop: assign_stage and the call of
\* calculate_weighted_ecl.
ProcessNext ==
    /\ ppc = "loop"
    /\ idx <= Len(portfolio)
    /\ LET loan == portfolio[idx]
       IN  /\ stage' = assign_stage(loan.Initial_PD, loan.Current_PD)
           /\ wargs' = WeightedArgs(stage', loan.Current_PD, loan.LGD, loan.Principal,
                                    loan.Maturity_Years, loan.EIR)
    /\ wpc' = "entry"
    /\ ppc' = "call"
    /\ UNCHANGED <<portfolio, results, idx, weighted_ecl, scen, ecl_scenario, wret,
                   cvars, svars, entry, prev, gvars, lvars>>

\* calculate_weighted_ecl has returned: the result record is appended.
ProcessAppend ==
    /\ ppc = "call"
    /\ wpc = "done"
    /\ results' = Appended(results, ResultRecord(portfolio[idx], stage, wret))
    /\ idx' = idx + 1
    /\ ppc' = "loop"
    /\ wpc' = "idle"
    /\ UNCHANGED <<portfolio, stage, wargs, weighted_ecl, scen, ecl_scenario, wret,
                   cvars, svars, entry, prev, gvars, lvars>>

\* results = []
ProcessEnter ==
    /\ ppc = "entry"
    /\ ~ExtraArgument("process_portfolio")
    /\ results' = <<>>
    /\ idx' = 1
    /\ ppc' = "loop"
    /\ UNCHANGED <<portfolio, stage, wvars, cvars, svars, entry, prev, gvars, lvars>>

\* A second argument: TypeError when the call binds its arguments.
ProcessReject ==
    /\ ppc = "entry"
    /\ ExtraArgument("process_portfolio")
    /\ ppc' = "raised"
    /\ UNCHANGED <<portfolio, results, idx, stage, wvars, cvars, svars, entry, prev,
                   gvars, lvars>>

\* calculate_weighted_ecl has raised: nothing catches it, and
\* process_portfolio returns nothing.
ProcessUnwind ==
    /\ ppc = "call"
    /\ wpc = "raised"
    /\ ppc' = "raised"
    /\ wpc' = "idle"
    /\ UNCHANGED <<portfolio, results, idx, stage, wargs, weighted_ecl, scen,
                   ecl_scenario, wret, cvars, svars, entry, prev, gvars, lvars>>

\* return results
ProcessReturn ==
    /\ ppc = "loop"
    /\ idx > Len(portfolio)
    /\ ppc' = "done"
    /\ UNCHANGED <<portfolio, results, idx, stage, wvars, cvars, svars, entry, prev, gvars, lvars>>

\* ------------------------------------------------------------------------
\* The callers
\* ------------------------------------------------------------------------

\* process_portfolio is called a second time, on a variant of the batch.
RunAgain ==
    /\ entry = "process_portfolio"
    /\ ppc = "done"
    /\ prev = <<>>
    /\ prev' = <<[portfolio |-> portfolio, results |-> results]>>
    /\ portfolio' \in Variants(portfolio)
    /\ results' = <<>>
    /\ idx' = 1
    /\ stage' = 0
    /\ ppc' = "loop"
    /\ UNCHANGED <<wvars, cvars, svars, entry, gvars, lvars>>

\* calculate_ecl is called a second time for the same loan.
CallEclAgain ==
    /\ entry = "calculate_ecl"
    /\ cpc = "done"
    /\ prev = <<>>
    /\ prev' = <<[args |-> cargs, ret |-> cret]>>
    /\ cargs' \in {a \in EclCalls : SameLoan(a, cargs)}
    /\ cpc' = "entry"
    /\ UNCHANGED <<pd_adj, ecl, cum_survival, marginal_pd, t, cret,
                   pvars, wvars, svars, entry, gvars, lvars>>

\* calculate_weighted_ecl is called a second time for the same loan.
CallWeightedAgain ==
    /\ entry = "calculate_weighted_ecl"
    /\ wpc = "done"
    /\ prev = <<>>
    /\ prev' = <<[args |-> wargs, ret |-> wret]>>
    /\ wargs' \in {a \in WeightedCalls : SameLoan(a, wargs)}
    /\ wpc' = "entry"
    /\ UNCHANGED <<weighted_ecl, scen, ecl_scenario, wret, pvars, cvars, svars, entry, gvars, lvars>>

CallAssignStage ==
    /\ entry = "assign_stage"
    /\ sret = 0
    /\ sret' = assign_stage(sargs.initial_pd, sargs.current_pd)
    /\ UNCHANGED <<sargs, pvars, wvars, cvars, entry, prev, gvars, lvars>>

\* ------------------------------------------------------------------------
\* Specifications
\* ------------------------------------------------------------------------

IdleProcess ==
    /\ portfolio = <<>> /\ results = <<>> /\ idx = 0 /\ stage = 0 /\ ppc = "idle"

IdleWeighted ==
    /\ wargs = NoArgs /\ weighted_ecl = Unbound /\ scen = 0 /\ ecl_scenario = <<>>
    /\ wret = Unbound /\ wpc = "idle"

IdleEcl ==
    /\ cargs = NoArgs /\ pd_adj = Unbound /\ ecl = Unbound /\ cum_survival = Unbound
    /\ marginal_pd = Unbound /\ t = 0 /\ cret = Unbound /\ cpc = "idle"

IdleStage == sargs = NoArgs /\ sret = 0

\* The module as written: lines 13-24, and no extra argument.
DefaultGlobals ==
    /\ scenario_weights = DefaultWeights
    /\ pd_multipliers = PD_MULTIPLIERS
    /\ supplied = NoSet

IdleLoad ==
    /\ csv = <<>> /\ rows = <<>> /\ ri = 0 /\ lpc = "idle"
    /\ mpc = "idle" /\ saved = 0

\* process_portfolio(portfolio)
Init ==
    /\ entry = "process_portfolio"
    /\ prev = <<>>
    /\ portfolio \in Portfolios
    /\ results = <<>> /\ idx = 1 /\ stage = 0 /\ ppc = "loop"
    /\ IdleWeighted /\ IdleEcl /\ IdleStage
    /\ DefaultGlobals /\ IdleLoad

Next ==
    \/ ProcessNext \/ ProcessAppend \/ ProcessReturn
    \/ WeightedEnter \/ WeightedNext \/ WeightedAccumulate \/ WeightedReturn
    \/ EclEnter \/ EclYear \/ EclReturn
    \/ RunAgain

Spec == Init /\ [][Next]_vars

\* calculate_ecl(...) or calculate_weighted_ecl(...), called directly
InitEcl ==
    /\ prev = <<>>
    /\ IdleProcess /\ IdleStage
    /\ DefaultGlobals /\ IdleLoad
    /\ \/ /\ entry = "calculate_ecl"
          /\ IdleWeighted
          /\ cargs \in EclCalls
          /\ pd_adj = Unbound /\ ecl = Unbound /\ cum_survival = Unbound
          /\ marginal_pd = Unbound /\ t = 0 /\ cret = Unbound /\ cpc = "entry"
       \/ /\ entry = "calculate_weighted_ecl"
          /\ IdleEcl
          /\ wargs \in WeightedCalls
          /\ weighted_ecl = Unbound /\ scen = 0 /\ ecl_scenario = <<>>
          /\ wret = Unbound /\ wpc = "entry"

NextEcl ==
    \/ WeightedEnter \/ WeightedNext \/ WeightedAccumulate \/ WeightedReturn
    \/ EclEnter \/ EclYear \/ EclReturn
    \/ CallEclAgain \/ CallWeightedAgain

SpecEcl == InitEcl /\ [][NextEcl]_vars

\* assign_stage(initial_pd, current_pd), called directly
InitStage ==
    /\ entry = "assign_stage"
    /\ prev = <<>>
    /\ IdleProcess /\ IdleWeighted /\ IdleEcl
    /\ DefaultGlobals /\ IdleLoad
    /\ sargs \in [initial_pd : StagePDs, current_pd : StagePDs]
    /\ sret = 0

NextStage == CallAssignStage

SpecStage == InitStage /\ [][NextStage]_vars

\* ------------------------------------------------------------------------
\* The module with other scenario tables, and calls that pass a scenario set
\* ------------------------------------------------------------------------

\* Two scenarios, weights 0.5 + 0.5.
TwoScenarioSet ==
    ScenarioSet(<<[name |-> "Base", weight |-> R(50, 100)],
                  [name |-> "Severe", weight |-> R(50, 100)]>>,
                [n \in {"Base", "Severe"} |-> IF n = "Base" THEN One ELSE R(2, 1)])

\* Weights 0.5 + 0.4 + 0.3 = 1.2.
HeavySet ==
    ScenarioSet(<<[name |-> "Optimistic", weight |-> R(50, 100)],
                  [name |-> "Base", weight |-> R(40, 100)],
                  [name |-> "Downturn", weight |-> R(30, 100)]>>,
                PD_MULTIPLIERS)

\* Weights 0.3 + 0.4 = 0.7.
LightSet ==
    ScenarioSet(<<[name |-> "Optimistic", weight |-> R(30, 100)],
                  [name |-> "Base", weight |-> R(40, 100)]>>,
                PD_MULTIPLIERS)

\* "Severe" has a weight and no multiplier.
RenamedSet ==
    ScenarioSet(<<[name |-> "Optimistic", weight |-> R(30, 100)],
                  [name |-> "Base", weight |-> R(40, 100)],
                  [name |-> "Severe", weight |-> R(30, 100)]>>,
                PD_MULTIPLIERS)

GlobalSets == {DefaultSet, TwoScenarioSet, HeavySet, LightSet, RenamedSet}

SuppliedSets == {TwoScenarioSet}

\* process_portfolio(portfolio) or calculate_weighted_ecl(...) with the
\* module's tables set to one of GlobalSets, or called with a scenario set
\* as an extra argument.
InitConfig ==
    /\ prev = <<>>
    /\ IdleStage /\ IdleLoad /\ IdleEcl
    /\ \E g \in GlobalSets :
          /\ scenario_weights = g.weights
          /\ pd_multipliers = g.multipliers
          /\ supplied \in (IF g = DefaultSet THEN {NoSet} \cup SuppliedSets ELSE {NoSet})
    /\ \/ /\ entry = "process_portfolio"
          /\ IdleWeighted
          /\ portfolio \in Portfolios
          /\ results = <<>> /\ idx = 0 /\ stage = 0 /\ ppc = "entry"
       \/ /\ entry = "calculate_weighted_ecl"
          /\ IdleProcess
          /\ wargs \in ExampleWeighted
          /\ weighted_ecl = Unbound /\ scen = 0 /\ ecl_scenario = <<>>
          /\ wret = Unbound /\ wpc = "entry"

NextConfig ==
    \/ ProcessEnter \/ ProcessReject
    \/ ProcessNext \/ ProcessAppend \/ ProcessReturn \/ ProcessUnwind
    \/ WeightedEnter \/ WeightedReject
    \/ WeightedNext \/ WeightedKeyError \/ WeightedAccumulate \/ WeightedReturn
    \/ EclEnter \/ EclYear \/ EclReturn

SpecConfig == InitConfig /\ [][NextConfig]_vars

\* ------------------------------------------------------------------------
\* load_portfolio and step_calculate_ecl
\* ------------------------------------------------------------------------

\* A cell of the CSV file is the sequence of its characters; a column the
\* line is too short for reads as None (csv.DictReader's restval).
NoneCell == <<"None">>

DigitChars == <<"0", "1", "2", "3", "4", "5", "6", "7", "8", "9">>

IsDigit(c) == \E i \in 1..Len(DigitChars) : DigitChars[i] = c

DigitValue(c) == (CHOOSE i \in 1..Len(DigitChars) : DigitChars[i] = c) - 1

Base == Len(DigitChars)

RECURSIVE NatOf(_)
NatOf(digits) ==
    IF digits = <<>> THEN 0
    ELSE Base * NatOf(SubSeq(digits, 1, Len(digits) - 1)) + DigitValue(digits[Len(digits)])

RECURSIVE PowerOfBase(_)
PowerOfBase(n) == IF n = 0 THEN 1 ELSE Base * PowerOfBase(n - 1)

HasSign(cell) == Len(cell) > 0 /\ cell[1] \in {"-", "+"}

Unsigned(cell) == IF HasSign(cell) THEN Tail(cell) ELSE cell

Dots(body) == {i \in 1..Len(body) : body[i] = "."}

\* int(cell): an optional sign and one or more digits; None is a TypeError,
\* anything else a ValueError.  (Blanks and underscores, which int() and
\* float() also take, do not occur in the files below.)
IntParses(cell) ==
    /\ cell # NoneCell
    /\ Len(Unsigned(cell)) > 0
    /\ \A i \in 1..Len(Unsigned(cell)) : IsDigit(Unsigned(cell)[i])

ParseInt(cell) ==
    IF cell[1] = "-" THEN 0 - NatOf(Unsigned(cell)) ELSE NatOf(Unsigned(cell))

\* float(cell): an optional sign, digits with at most one point, at least
\* one digit.  (Exponents, "inf" and "nan" do not occur in the files below.)
FloatParses(cell) ==
    /\ cell # NoneCell
    /\ LET body == Unsigned(cell)
       IN  /\ Cardinality(Dots(body)) <= 1
           /\ \A i \in 1..Len(body) : IsDigit(body[i]) \/ body[i] = "."
           /\ \E i \in 1..Len(body) : IsDigit(body[i])

ParseFloat(cell) ==
    LET body == Unsigned(cell)
        dot == IF Dots(body) = {} THEN Len(body) + 1 ELSE CHOOSE i \in Dots(body) : TRUE
        whole == SubSeq(body, 1, dot - 1)
        frac == SubSeq(body, dot + 1, Len(body))
        magnitude == R(NatOf(whole \o frac), PowerOfBase(Len(frac)))
    IN  IF cell[1] = "-" THEN RNeg(magnitude) ELSE magnitude

\* The dict csv.DictReader yields for a line: one key per column of the
\* header, the cell of the line or None.
DictRow(header, line) ==
    [k \in {header[i] : i \in 1..Len(header)} |->
        LET i == CHOOSE j \in 1..Len(header) : header[j] = k
        IN  IF i <= Len(line) THEN line[i] ELSE NoneCell]

TextColumns == {"Loan_ID", "Sector"}
FloatColumns == {"Principal", "Initial_PD", "Current_PD", "EIR", "LGD"}
IntColumns == {"Maturity_Years"}

\* The dict display of load_portfolio evaluates without KeyError, TypeError
\* or ValueError.
Converts(row) ==
    /\ (TextColumns \cup FloatColumns \cup IntColumns) \subseteq DOMAIN row
    /\ \A k \in FloatColumns : FloatParses(row[k])
    /\ \A k \in IntColumns : IntParses(row[k])

Converted(row) ==
    Loan(row["Loan_ID"], row["Sector"], ParseFloat(row["Principal"]),
         ParseFloat(row["Initial_PD"]), ParseFloat(row["Current_PD"]),
         ParseInt(row["Maturity_Years"]), ParseFloat(row["EIR"]), ParseFloat(row["LGD"]))

\* The files: the header the generator writes, one with the columns in
\* another order, and one without the LGD column.
GeneratedHeader ==
    <<"Loan_ID", "Sector", "Principal", "Initial_PD", "Current_PD",
      "Maturity_Years", "EIR", "LGD", "Stage">>

SectorLastHeader ==
    <<"Loan_ID", "Principal", "Initial_PD", "Current_PD",
      "Maturity_Years", "EIR", "LGD", "Sector">>

NoLgdHeader ==
    <<"Loan_ID", "Sector", "Principal", "Initial_PD", "Current_PD",
      "Maturity_Years", "EIR">>

\* L1,a,100,0.1,0.5,2,0.25,0.45,2 : a stage-2 loan.
RawLifetime ==
    [Loan_ID |-> <<"L", "1">>, Sector |-> <<"a">>, Principal |-> <<"1", "0", "0">>,
     Initial_PD |-> <<"0", ".", "1">>, Current_PD |-> <<"0", ".", "5">>,
     Maturity_Years |-> <<"2">>, EIR |-> <<"0", ".", "2", "5">>,
     LGD |-> <<"0", ".", "4", "5">>, Stage |-> <<"2">>]

\* L2,b,100,.5,0.5,1,0,1.,1 : a stage-1 loan.
RawTwelveMonth ==
    [Loan_ID |-> <<"L", "2">>, Sector |-> <<"b">>, Principal |-> <<"1", "0", "0">>,
     Initial_PD |-> <<".", "5">>, Current_PD |-> <<"0", ".", "5">>,
     Maturity_Years |-> <<"1">>, EIR |-> <<"0">>,
     LGD |-> <<"1", ".">>, Stage |-> <<"1">>]

RawRecords ==
    { RawLifetime, RawTwelveMonth,
      [RawLifetime EXCEPT !.Principal = <<"a", "b", "c">>],
      [RawLifetime EXCEPT !.Maturity_Years = <<"2", ".", "5">>],
      [RawLifetime EXCEPT !.EIR = <<>>],
      [RawLifetime EXCEPT !.Maturity_Years = <<"0">>],
      [RawLifetime EXCEPT !.Maturity_Years = <<"-", "2">>],
      [RawLifetime EXCEPT !.EIR = <<"-", "1">>] }

\* The first n cells of the record, in the order of the header.
Line(header, record, n) == [i \in 1..n |-> record[header[i]]]

\* Whole lines, and lines that stop one cell early.
Lines(header) ==
    {Line(header, r, Len(header)) : r \in RawRecords}
    \cup {Line(header, RawLifetime, Len(header) - 1)}

FilesOf(header, lines) ==
    {[header |-> header, lines |-> ls] : ls \in SeqsUpTo(lines, MaxLoans)}

ShortAndWhole(header) ==
    {Line(header, RawLifetime, Len(header)), Line(header, RawLifetime, Len(header) - 1)}

Files ==
    FilesOf(GeneratedHeader, Lines(GeneratedHeader))
    \cup FilesOf(SectorLastHeader, ShortAndWhole(SectorLastHeader))
    \cup FilesOf(NoLgdHeader, ShortAndWhole(NoLgdHeader))

\* rows = []; the file is opened and the reader takes the header.
LoadEnter ==
    /\ lpc = "entry"
    /\ rows' = <<>>
    /\ ri' = 1
    /\ lpc' = "loop"
    /\ UNCHANGED <<csv, mpc, saved, pvars, wvars, cvars, svars, entry, prev, gvars>>

\* rows.append({...}) for the next line of the file.
LoadRow ==
    /\ lpc = "loop"
    /\ ri <= Len(csv.lines)
    /\ Converts(DictRow(csv.header, csv.lines[ri]))
    /\ rows' = Append(rows, Converted(DictRow(csv.header, csv.lines[ri])))
    /\ ri' = ri + 1
    /\ UNCHANGED <<csv, lpc, mpc, saved, pvars, wvars, cvars, svars, entry, prev, gvars>>

\* row[...], float(...) or int(...) raises: load_portfolio returns nothing.
LoadRaise ==
    /\ lpc = "loop"
    /\ ri <= Len(csv.lines)
    /\ ~Converts(DictRow(csv.header, csv.lines[ri]))
    /\ lpc' = "raised"
    /\ UNCHANGED <<csv, rows, ri, mpc, saved, pvars, wvars, cvars, svars, entry, prev, gvars>>

\* return rows
LoadReturn ==
    /\ lpc = "loop"
    /\ ri > Len(csv.lines)
    /\ lpc' = "done"
    /\ UNCHANGED <<csv, rows, ri, mpc, saved, pvars, wvars, cvars, svars, entry, prev, gvars>>

\* portfolio = load_portfolio(...) has returned;
\* results = ecl_engine.process_portfolio(portfolio) is called.
StepProcess ==
    /\ mpc = "load"
    /\ lpc = "done"
    /\ portfolio' = rows
    /\ ppc' = "entry"
    /\ mpc' = "process"
    /\ UNCHANGED <<results, idx, stage, wvars, cvars, svars, entry, prev, gvars,
                   csv, rows, ri, lpc, saved>>

\* process_portfolio has returned; the summary loop runs and save_results
\* writes the header line and one line per result.
StepSave ==
    /\ mpc = "process"
    /\ ppc = "done"
    /\ saved' = 1 + Len(results)
    /\ mpc' = "done"
    /\ UNCHANGED <<csv, rows, ri, lpc, pvars, wvars, cvars, svars, entry, prev, gvars>>

\* load_portfolio has raised: step_calculate_ecl catches nothing.
StepLoadFailed ==
    /\ mpc = "load"
    /\ lpc = "raised"
    /\ mpc' = "raised"
    /\ UNCHANGED <<csv, rows, ri, lpc, saved, pvars, wvars, cvars, svars, entry, prev, gvars>>

\* process_portfolio has raised: step_calculate_ecl catches nothing.
StepProcessFailed ==
    /\ mpc = "process"
    /\ ppc = "raised"
    /\ mpc' = "raised"
    /\ UNCHANGED <<csv, rows, ri, lpc, saved, pvars, wvars, cvars, svars, entry, prev, gvars>>

\* step_calculate_ecl() on a file of Files.
InitPipeline ==
    /\ entry = "step_calculate_ecl"
    /\ prev = <<>>
    /\ IdleProcess /\ IdleWeighted /\ IdleEcl /\ IdleStage
    /\ DefaultGlobals
    /\ csv \in Files
    /\ rows = <<>> /\ ri = 0 /\ lpc = "entry"
    /\ mpc = "load" /\ saved = 0

NextPipeline ==
    \/ LoadEnter \/ LoadRow \/ LoadRaise \/ LoadReturn
    \/ StepProcess \/ StepSave \/ StepLoadFailed \/ StepProcessFailed
    \/ ProcessEnter \/ ProcessNext \/ ProcessAppend \/ ProcessReturn \/ ProcessUnwind
    \/ WeightedEnter \/ WeightedNext \/ WeightedAccumulate \/ WeightedReturn
    \/ WeightedUnwind
    \/ EclEnter \/ EclYear \/ EclZeroDivision \/ EclReturn

SpecPipeline == InitPipeline /\ [][NextPipeline]_vars

\* ------------------------------------------------------------------------
\* Properties
\* ------------------------------------------------------------------------

Half == <<1, 2>>
Three == <<3, 1>>

\* a > b, a < b and a <= b on rationals, by cross-multiplication.
Above(a, b) == a[1] * b[2] > b[1] * a[2]
Below(a, b) == a[1] * b[2] < b[1] * a[2]
AtMost(a, b) == a[1] * b[2] <= b[1] * a[2]
Times(a, b) == RMul(a, b)

StageReturned == entry = "assign_stage" /\ sret # 0

\* C1: assign_stage returns 3 exactly when current_pd > 0.5, whatever
\* initial_pd is (0 included, and ratios above 3.0 included); current_pd of
\* exactly 0.5 never gives stage 3.
C1_StageThreeIffAboveHalf ==
    StageReturned =>
        /\ (sret = 3) <=> Above(sargs.current_pd, Half)
        /\ sargs.current_pd = Half => sret # 3

\* Rule 1 wins over rule 2: a ratio above 3.0 with current_pd > 0.5.
C1_Witness ==
    /\ StageReturned
    /\ sret = 3
    /\ Above(sargs.initial_pd, Zero)
    /\ Above(sargs.current_pd, Times(Three, sargs.initial_pd))

\* C2: assign_stage returns 2 exactly when current_pd <= 0.5, initial_pd > 0
\* and current_pd / initial_pd > 3.0; a ratio of exactly 3.0 gives stage 1,
\* and initial_pd = 0 with current_pd <= 0.5 gives stage 1.
C2_StageTwoIffRatioAboveThree ==
    StageReturned =>
        /\ (sret = 2) <=>
              /\ AtMost(sargs.current_pd, Half)
              /\ Above(sargs.initial_pd, Zero)
              /\ Above(sargs.current_pd, Times(Three, sargs.initial_pd))
        /\ (/\ Above(sargs.initial_pd, Zero)
            /\ sargs.current_pd = Times(Three, sargs.initial_pd)
            /\ AtMost(sargs.current_pd, Half)) => sret = 1
        /\ (sargs.initial_pd = Zero /\ AtMost(sargs.current_pd, Half)) => sret = 1

\* A ratio of exactly 3.0 below the stage-3 threshold.
C2_Witness ==
    /\ StageReturned
    /\ sret = 1
    /\ Above(sargs.initial_pd, Zero)
    /\ sargs.current_pd = Times(Three, sargs.initial_pd)

\* C3: every record process_portfolio has produced for a valid loan has
\* Stage in {1, 2, 3} and ECL >= 0.
C3_StageAndEclInRange ==
    entry = "process_portfolio" =>
        \A i \in 1..Len(results) :
            /\ results[i].Stage \in {1, 2, 3}
            /\ AtMost(Zero, results[i].ECL)

\* A finished batch with a credit-impaired and a deteriorated loan, both
\* with a positive ECL.
C3_Witness ==
    /\ entry = "process_portfolio"
    /\ ppc = "done"
    /\ Len(results) = 2
    /\ results[1].Stage = 3 /\ Above(results[1].ECL, Zero)
    /\ results[2].Stage = 2 /\ Above(results[2].ECL, Zero)

InEcl == cpc \in {"loop", "tail", "done"}

Bound(x) == x # Unbound

Probability(x) == AtMost(Zero, x) /\ AtMost(x, One)

\* C4: once calculate_ecl has computed pd_adj (current_pd in (0,1],
\* pd_multiplier >= 0), pd_adj <= 1, and in every iteration of the lifetime
\* loop cum_survival and marginal_pd lie in [0, 1].
C4_ProbabilitiesBounded ==
    InEcl =>
        /\ Probability(pd_adj)
        /\ Bound(cum_survival) => Probability(cum_survival)
        /\ Bound(marginal_pd) => Probability(marginal_pd)

\* The cap acts: current_pd * pd_multiplier > 1, and the loop has run a
\* year with it.
C4_Witness ==
    /\ InEcl
    /\ cpc = "loop"
    /\ t = 2
    /\ Above(Times(cargs.current_pd, cargs.pd_multiplier), One)
    /\ pd_adj = One
    /\ marginal_pd = One
    /\ cum_survival = Zero

\* min(current_pd * pd_multiplier, 1.0), from the arguments.
Capped(a) ==
    LET raw == Times(a.current_pd, a.pd_multiplier)
    IN  IF Above(raw, One) THEN One ELSE raw

\* sum over year = 1..m of (1 - p)^(year-1) * p * lgd * ead / (1 + eir)^year
RECURSIVE LifetimeSum(_, _, _, _, _)
LifetimeSum(p, lgd, ead, eir, m) ==
    IF m = 0 THEN Zero
    ELSE RAdd(LifetimeSum(p, lgd, ead, eir, m - 1),
              RDiv(Times(Times(Times(RPow(RSub(One, p), m - 1), p), lgd), ead),
                   RPow(RAdd(One, eir), m)))

\* x to the nearest cent, halves to the even cent.
NearestCent(x) ==
    LET whole == x[1] \div x[2]
        rest == x[1] % x[2]
        c == (100 * rest) \div x[2]
        left == (100 * rest) % x[2]
        cents == 100 * whole + c
    IN  IF 2 * left > x[2] \/ (2 * left = x[2] /\ cents % 2 = 1)
        THEN R(cents + 1, 100)
        ELSE R(cents, 100)

Stage3Example == EclArgs(3, R(60, 100), R(45, 100), R(100000, 1), 1, R(3, 100), One)

EclReturned == entry = "calculate_ecl" /\ cpc = "done"

\* C5: for stage 2 or 3 calculate_ecl returns the closed-form lifetime sum
\* rounded to 2 decimals, after exactly maturity_years iterations; the
\* reference stage-3 loan gives 26213.59.
C5_LifetimeEclIsDiscountedSum ==
    (EclReturned /\ cargs.stage # 1) =>
        /\ cret = NearestCent(LifetimeSum(Capped(cargs), cargs.lgd, cargs.ead,
                                          cargs.eir, cargs.maturity_years))
        /\ t - 1 = cargs.maturity_years
        /\ cargs = Stage3Example => cret = R(2621359, 100)

\* The reference loan returned 26213.59, and called again with two years
\* to maturity returns 36393.63.
C5_Witness ==
    /\ EclReturned
    /\ Len(prev) = 1
    /\ prev[1].args = Stage3Example
    /\ prev[1].ret = R(2621359, 100)
    /\ cargs = [Stage3Example EXCEPT !.maturity_years = 2]
    /\ cret = R(3639363, 100)

Stage1Example == EclArgs(1, R(2, 100), R(45, 100), R(100000, 1), 1, R(3, 100), One)

\* C6: for stage 1 calculate_ecl returns pd_adj * lgd * ead rounded to 2
\* decimals, the same for every maturity_years and eir; the reference
\* stage-1 loan gives 900.00.
C6_TwelveMonthEclIgnoresHorizon ==
    (EclReturned /\ cargs.stage = 1) =>
        /\ cret = NearestCent(Times(Times(Capped(cargs), cargs.lgd), cargs.ead))
        /\ (Len(prev) = 1 /\ prev[1].args.pd_multiplier = cargs.pd_multiplier)
              => cret = prev[1].ret
        /\ cargs = Stage1Example => cret = R(900, 1)

\* The reference loan returned 900.00 twice, the first time with another
\* maturity and another eir.
C6_Witness ==
    /\ EclReturned
    /\ cargs = Stage1Example
    /\ cret = R(900, 1)
    /\ Len(prev) = 1
    /\ prev[1].args.maturity_years = 5
    /\ prev[1].args.eir = R(4, 100)
    /\ prev[1].ret = R(900, 1)

\* The scenario ECL of the loan a under multiplier mult, from the formulas.
ScenarioEcl(a, mult) ==
    LET p == Capped(WithMultiplier(a, mult))
    IN  NearestCent(IF a.stage = 1
                    THEN Times(Times(p, a.lgd), a.ead)
                    ELSE LifetimeSum(p, a.lgd, a.ead, a.eir, a.maturity_years))

WeightedReturned == wpc = "done"

\* C7: calculate_weighted_ecl returns, rounded to 2 decimals,
\* 0.30 * ecl(0.80) + 0.40 * ecl(1.00) + 0.30 * ecl(1.50): one call of
\* calculate_ecl per scenario, each with that scenario's own multiplier,
\* each contributing once with its own weight.
C7_WeightedEclIsWeightedSum ==
    WeightedReturned =>
        /\ Len(ecl_scenario) = 3
        /\ \A i \in 1..3 :
              /\ ecl_scenario[i].args = WithMultiplier(wargs, PD_MULTIPLIERS[ScenarioOrder[i]])
              /\ ecl_scenario[i].ret = ScenarioEcl(wargs, PD_MULTIPLIERS[ScenarioOrder[i]])
        /\ wret = NearestCent(
              RAdd(RAdd(Times(R(30, 100), ScenarioEcl(wargs, R(80, 100))),
                        Times(R(40, 100), ScenarioEcl(wargs, R(100, 100)))),
                   Times(R(30, 100), ScenarioEcl(wargs, R(150, 100)))))

\* The reference stage-1 loan: 0.3 * 720 + 0.4 * 900 + 0.3 * 1350 = 981.00.
C7_Witness ==
    /\ entry = "calculate_weighted_ecl"
    /\ WeightedReturned
    /\ wargs = WeightedArgs(1, R(2, 100), R(45, 100), R(100000, 1), 1, R(3, 100))
    /\ wret = R(981, 1)

InputFields == {"Loan_ID", "Sector", "Principal", "Initial_PD", "Current_PD",
                "Maturity_Years", "EIR", "LGD"}

InProcess == entry = "process_portfolio"

\* C8: process_portfolio appends one record per loan in input order: the
\* results are as long as the prefix processed so far, the i-th record
\* carries the i-th loan's fields unchanged plus Stage and ECL, and the
\* returned list is as long as the input.
C8_OneResultPerLoanInOrder ==
    InProcess =>
        /\ Len(results) = idx - 1
        /\ Len(results) <= Len(portfolio)
        /\ ppc = "done" => Len(results) = Len(portfolio)
        /\ \A i \in 1..Len(results) :
              /\ DOMAIN results[i] = InputFields \cup {"Stage", "ECL"}
              /\ \A f \in InputFields : results[i][f] = portfolio[i][f]

\* A finished batch whose identifiers are not in ascending order.
C8_Witness ==
    /\ InProcess
    /\ ppc = "done"
    /\ Len(results) = 2
    /\ results[1].Loan_ID = "LOAN00003"
    /\ results[2].Loan_ID = "LOAN00001"

\* C9: the record of a loan depends on that loan alone: equal loans get
\* equal records, within one run and across two runs of process_portfolio,
\* whatever the other loans of the batch and their order are.
C9_ResultDependsOnLoanOnly ==
    InProcess =>
        \A i \in 1..Len(results) :
            /\ \A j \in 1..Len(results) :
                  portfolio[i] = portfolio[j] => results[i] = results[j]
            /\ Len(prev) = 1 =>
                  \A j \in 1..Len(prev[1].results) :
                      portfolio[i] = prev[1].portfolio[j]
                          => results[i] = prev[1].results[j]

\* The second run has finished on the first run's batch in reverse order.
C9_Witness ==
    /\ InProcess
    /\ ppc = "done"
    /\ Len(prev) = 1
    /\ Len(portfolio) = 2
    /\ Len(prev[1].portfolio) = 2
    /\ portfolio[1] # portfolio[2]
    /\ portfolio[1] = prev[1].portfolio[2]
    /\ portfolio[2] = prev[1].portfolio[1]
    /\ results[1] = prev[1].results[2]
    /\ results[2] = prev[1].results[1]

\* The second call b is the first call a with a higher eir, everything
\* else equal.
OnlyEirRaised(a, b) == b = [a EXCEPT !.eir = b.eir] /\ Above(b.eir, a.eir)

EirRaised(returned, a) ==
    /\ returned
    /\ Len(prev) = 1
    /\ a.stage # 1
    /\ a.maturity_years >= 2
    /\ OnlyEirRaised(prev[1].args, a)

\* C10 as stated: for a stage-2 or stage-3 loan with maturity_years >= 2,
\* raising eir strictly lowers the ECL calculate_ecl and
\* calculate_weighted_ecl return.
C10_EirStrictlyLowersEcl ==
    /\ EirRaised(EclReturned, cargs) => Below(cret, prev[1].ret)
    /\ EirRaised(entry = "calculate_weighted_ecl" /\ WeightedReturned, wargs)
          => Below(wret, prev[1].ret)

\* C10 as amended: for a stage-2 or stage-3 loan with maturity_years >= 2,
\* raising eir never raises the ECL calculate_ecl and calculate_weighted_ecl
\* return (the returned values are rounded to 2 decimals and can be equal).
C10_EirNeverRaisesEcl ==
    /\ EirRaised(EclReturned, cargs) => AtMost(cret, prev[1].ret)
    /\ EirRaised(entry = "calculate_weighted_ecl" /\ WeightedReturned, wargs)
          => AtMost(wret, prev[1].ret)

\* A loan of one currency unit with a positive loss (pd 0.60, lgd 0.45, two
\* years): 0.36 at 3% and 0.36 at 4%, the decrease lost in the rounding.
C10_Witness ==
    /\ EirRaised(EclReturned, cargs)
    /\ cargs = EclArgs(3, R(60, 100), R(45, 100), One, 2, R(4, 100), One)
    /\ prev[1].args.eir = R(3, 100)
    /\ prev[1].ret = R(36, 100)
    /\ cret = R(36, 100)

\* ------------------------------------------------------------------------
\* Scenario tables
\* ------------------------------------------------------------------------

RECURSIVE WeightTotal(_, _)
WeightTotal(items, n) ==
    IF n = 0 THEN Zero ELSE RAdd(WeightTotal(items, n - 1), items[n].weight)

WeightsSumToOne == WeightTotal(scenario_weights, Len(scenario_weights)) = One

EveryScenarioHasMultiplier ==
    \A i \in 1..Len(scenario_weights) : scenario_weights[i].name \in DOMAIN pd_multipliers

\* C11: with an invalid scenario set (weights that do not sum to 1, or a
\* weighted scenario without a PD multiplier) process_portfolio produces no
\* result record, and with wrong weights no weighted ECL is ever returned.
C11_InvalidSetYieldsNothing ==
    /\ ~(WeightsSumToOne /\ EveryScenarioHasMultiplier) => Len(results) = 0
    /\ ~WeightsSumToOne => wpc # "done"

\* Weights 0.5 + 0.4 + 0.3: the stage-1 reference loan gets
\* 0.5 * 720 + 0.4 * 900 + 0.3 * 1350 = 1125.00, and a portfolio gets a record.
C11_Witness ==
    /\ scenario_weights = HeavySet.weights
    /\ \/ /\ entry = "calculate_weighted_ecl"
          /\ wargs = WeightedArgs(1, R(2, 100), R(45, 100), R(100000, 1), 1, R(3, 100))
          /\ wpc = "done"
          /\ wret = R(1125, 1)
       \/ /\ entry = "process_portfolio"
          /\ ppc = "done"
          /\ Len(results) = MaxLoans

\* The weighted sum of the first n scenarios of a scenario set for the loan
\* a, from the formulas.
RECURSIVE WeightedSum(_, _, _)
WeightedSum(set, a, n) ==
    IF n = 0 THEN Zero
    ELSE RAdd(WeightedSum(set, a, n - 1),
              Times(set.weights[n].weight,
                    ScenarioEcl(a, set.multipliers[set.weights[n].name])))

\* C12: a call that supplies a valid scenario set is accepted, and the
\* weighted ECL it returns is the one computed with the supplied weights and
\* multipliers; the module's own three scenarios serve only when none is
\* supplied.
C12_SuppliedSetIsUsed ==
    supplied # NoSet =>
        /\ ppc # "raised"
        /\ wpc # "raised"
        /\ wpc = "done" =>
              wret = NearestCent(WeightedSum(supplied, wargs, Len(supplied.weights)))

\* calculate_weighted_ecl(1, 0.02, 0.45, 100000, 1, 0.03, {...}) raises.
C12_Witness ==
    /\ supplied = TwoScenarioSet
    /\ entry = "calculate_weighted_ecl"
    /\ wargs = WeightedArgs(1, R(2, 100), R(45, 100), R(100000, 1), 1, R(3, 100))
    /\ wpc = "raised"
    /\ wret = Unbound

\* ------------------------------------------------------------------------
\* Loading
\* ------------------------------------------------------------------------

RequiredColumns ==
    {"Loan_ID", "Sector", "Principal", "Initial_PD", "Current_PD",
     "Maturity_Years", "EIR", "LGD"}

\* The row has no value for a required field.
LacksField(row) ==
    \E k \in RequiredColumns : k \notin DOMAIN row \/ row[k] = NoneCell

\* A numeric field of the row holds text that is not a number.
HasUnparseable(row) ==
    \/ \E k \in FloatColumns \cap DOMAIN row : row[k] # NoneCell /\ ~FloatParses(row[k])
    \/ \E k \in IntColumns \cap DOMAIN row : row[k] # NoneCell /\ ~IntParses(row[k])

HasMalformedRow ==
    \E i \in 1..Len(csv.lines) :
        LET row == DictRow(csv.header, csv.lines[i])
        IN  LacksField(row) \/ HasUnparseable(row)

\* C13: when a row of the file lacks a required field or holds a
\* non-parseable value in a numeric field, load_portfolio never returns, and
\* step_calculate_ecl neither processes nor saves anything.
C13_MalformedRowRejectsLoad ==
    HasMalformedRow =>
        /\ lpc # "done"
        /\ mpc \notin {"process", "done"}
        /\ ppc = "idle"
        /\ saved = 0

\* A line that stops before its Sector cell is loaded with Sector None,
\* processed and saved.
C13_Witness ==
    /\ csv.header = SectorLastHeader
    /\ Len(csv.lines) = 1
    /\ Len(csv.lines[1]) < Len(csv.header)
    /\ lpc = "done"
    /\ rows[1].Sector = NoneCell
    /\ mpc = "done"
    /\ Len(results) = 1
    /\ results[1].Sector = NoneCell
    /\ saved = 2

\* C14: every record load_portfolio returns has an integer Maturity_Years
\* of at least 1, and processing the loaded portfolio never raises.
C14_AcceptedPortfolioIsProcessed ==
    /\ lpc = "done" => \A i \in 1..Len(rows) : rows[i].Maturity_Years >= 1
    /\ mpc = "process" => cpc # "raised" /\ wpc # "raised" /\ ppc # "raised"
    /\ lpc = "done" => mpc # "raised"

\* EIR "-1" is loaded as -1.0; 1.0 / ((1.0 + eir) ** 1) then raises inside
\* calculate_ecl and the step fails after the load.
C14_Witness ==
    /\ lpc = "done"
    /\ Len(rows) = 1
    /\ rows[1].EIR = RNeg(One)
    /\ rows[1].Maturity_Years = 2
    /\ mpc = "raised"
    /\ ppc = "raised"
    /\ Len(results) = 0

\* ------------------------------------------------------------------------
\* Bounds and monotonicity of the ECL
\* ------------------------------------------------------------------------

Minus(a, b) == RSub(a, b)

\* lgd * ead: the loss on the full exposure.
FullLoss(a) == Times(a.lgd, a.ead)

\* a <= b, from the sign of b - a.
NoMoreThan(a, b) == Minus(b, a)[1] >= 0

\* C15: in the lifetime loop of calculate_ecl the running ecl never exceeds
\* (1 - cum_survival) * lgd * ead; the ECL calculate_ecl returns (either
\* branch) and the weighted ECL never exceed lgd * ead rounded to 2 decimals.
C15_EclAtMostFullLoss ==
    /\ cpc = "loop" =>
          NoMoreThan(ecl, Times(Minus(One, cum_survival), FullLoss(cargs)))
    /\ cpc = "done" => NoMoreThan(cret, NearestCent(FullLoss(cargs)))
    /\ wpc = "done" => NoMoreThan(wret, NearestCent(FullLoss(wargs)))

\* After two iterations at eir = 0 the bound is met with equality, on a
\* loan that has lost something and still survives with some probability.
C15_Witness ==
    /\ cpc = "loop"
    /\ t = 3
    /\ cargs.eir = Zero
    /\ Above(ecl, Zero)
    /\ Above(cum_survival, Zero)
    /\ ecl = Times(Minus(One, cum_survival), FullLoss(cargs))

OnlyMultiplierRaised(a, b) ==
    /\ b = [a EXCEPT !.pd_multiplier = b.pd_multiplier]
    /\ Above(b.pd_multiplier, a.pd_multiplier)

MultiplierRaised ==
    /\ EclReturned
    /\ Len(prev) = 1
    /\ OnlyMultiplierRaised(prev[1].args, cargs)

\* C16: a second call of calculate_ecl that differs from the first only by
\* a larger pd_multiplier returns at least as much, in either branch; the
\* three scenario ECLs of calculate_weighted_ecl are ordered Optimistic <=
\* Base <= Downturn and the weighted ECL lies between the first and the last.
C16_EclNonDecreasingInMultiplier ==
    /\ MultiplierRaised => AtMost(prev[1].ret, cret)
    /\ WeightedReturned =>
          /\ AtMost(ecl_scenario[1].ret, ecl_scenario[2].ret)
          /\ AtMost(ecl_scenario[2].ret, ecl_scenario[3].ret)
          /\ AtMost(ecl_scenario[1].ret, wret)
          /\ AtMost(wret, ecl_scenario[3].ret)

\* A lifetime loan of several years whose ECL grows when only the
\* multiplier grows.
C16_Witness ==
    /\ MultiplierRaised
    /\ cargs.stage = 2
    /\ cargs.maturity_years >= 2
    /\ Above(cargs.eir, Zero)
    /\ Above(prev[1].ret, Zero)
    /\ Above(cret, prev[1].ret)

=============================================================================
